---- MODULE Spec2Model ----
(***************************************************************************)
(* Model of main.py: a CSV command-line utility that filters rows by a     *)
(* comparison condition, prints the table and aggregates numeric columns.  *)
(*                                                                         *)
(* Strings are sequences of one-character strings, so that split, strip,   *)
(* float() and the string ordering are computed character by character.    *)
(* Numbers are exact rationals [n, d]; the cells used here are small       *)
(* decimal numerals for which Python's double arithmetic is exact.         *)
(* float() forms outside the alphabet (sign, exponent, inf, nan, "_") are  *)
(* not generated by the inputs below.                                      *)
(***************************************************************************)
EXTENDS Integers, Sequences, FiniteSets, TLC

VARIABLES pc, csv, data, where, parsed, aggregate, column, func, values,
          numeric_columns, out, err, caught, ret

vars == <<pc, csv, data, where, parsed, aggregate, column, func, values,
          numeric_columns, out, err, caught, ret>>

----------------------------------------------------------------------------
(* Bounds *)

MaxRows == 2

MaxCondLen == 3

MaxValues == 2

----------------------------------------------------------------------------
(* Strings *)

\* an optional value: Nothing is None / not yet bound, Some(x) is x
Nothing == <<>>

Some(x) == <<x>>

Range(s) == {s[i] : i \in 1..Len(s)}

CodeTable ==
  <<" ", ".", "0", "1", "2", "3", "4", "5", "6", "7", "8", "9", "<", "=", ">",
    "a", "b", "c", "d", "e", "g", "i", "l", "m", "n", "v", "x">>

\* position in CodeTable follows the code point order of the characters
CharCode(c) == CHOOSE i \in 1..Len(CodeTable) : CodeTable[i] = c

Digits == <<"0", "1", "2", "3", "4", "5", "6", "7", "8", "9">>

IsDigit(c) == c \in Range(Digits)

DigitVal(c) == (CHOOSE i \in 1..Len(Digits) : Digits[i] = c) - 1

\* op_str in condition
Contains(s, c) == \E i \in 1..Len(s) : s[i] = c

FirstIndex(s, c) == CHOOSE i \in 1..Len(s) : s[i] = c /\ \A j \in 1..(i-1) : s[j] # c

RECURSIVE lstrip(_)
lstrip(s) == IF s # <<>> /\ Head(s) = " " THEN lstrip(Tail(s)) ELSE s

RECURSIVE rstrip(_)
rstrip(s) ==
  IF s # <<>> /\ s[Len(s)] = " " THEN rstrip(SubSeq(s, 1, Len(s) - 1)) ELSE s

\* str.strip()
strip(s) == rstrip(lstrip(s))

\* str.split(sep) for a one-character separator: cuts at EVERY occurrence
RECURSIVE split(_, _)
split(s, sep) ==
  IF ~Contains(s, sep) THEN <<s>>
  ELSE LET i == FirstIndex(s, sep)
       IN <<SubSeq(s, 1, i - 1)>> \o split(SubSeq(s, i + 1, Len(s)), sep)

\* s < t in Python's str ordering (lexicographic by code point)
RECURSIVE StrLess(_, _)
StrLess(s, t) ==
  IF t = <<>> THEN FALSE
  ELSE IF s = <<>> THEN TRUE
  ELSE IF Head(s) # Head(t) THEN CharCode(Head(s)) < CharCode(Head(t))
  ELSE StrLess(Tail(s), Tail(t))

----------------------------------------------------------------------------
(* Numbers *)

Num(n, d) == [n |-> n, d |-> d]

NumEq(x, y) == x.n * y.d = y.n * x.d

NumLess(x, y) == x.n * y.d < y.n * x.d

RECURSIVE DigitsValue(_)
DigitsValue(s) ==
  IF s = <<>> THEN 0
  ELSE 10 * DigitsValue(SubSeq(s, 1, Len(s) - 1)) + DigitVal(s[Len(s)])

RECURSIVE Pow10(_)
Pow10(k) == IF k = 0 THEN 1 ELSE 10 * Pow10(k - 1)

\* float(s): surrounding blanks are ignored; digits with at most one ".",
\* at least one digit. ok = FALSE stands for ValueError.
float(s) ==
  LET t == strip(s)
      dots == {i \in 1..Len(t) : t[i] = "."}
      wellformed == /\ t # <<>>
                    /\ \A i \in 1..Len(t) : IsDigit(t[i]) \/ t[i] = "."
                    /\ Cardinality(dots) <= 1
                    /\ \E i \in 1..Len(t) : IsDigit(t[i])
  IN IF ~wellformed THEN [ok |-> FALSE, v |-> Num(0, 1)]
     ELSE IF dots = {} THEN [ok |-> TRUE, v |-> Num(DigitsValue(t), 1)]
     ELSE LET p == CHOOSE i \in dots : TRUE
              ip == SubSeq(t, 1, p - 1)
              fp == SubSeq(t, p + 1, Len(t))
          IN [ok |-> TRUE,
              v |-> Num(DigitsValue(ip) * Pow10(Len(fp)) + DigitsValue(fp),
                        Pow10(Len(fp)))]

\* try_float(value) is not None
try_float(s) == float(s).ok

----------------------------------------------------------------------------
(* Exceptions *)

NoError == "none"

InvalidCondition == "ValueError: Invalid filter condition"

UnpackError == "ValueError: too many values to unpack"

CoercionError == "ValueError: could not convert string to float"

KeyError == "KeyError"

TypeError == "TypeError: comparison not supported between str and float"

IndexError == "IndexError: list index out of range"

UnsupportedAggregate == "ValueError: Unsupported aggregate function"

EmptySequenceError == "ValueError: arg is an empty sequence"

----------------------------------------------------------------------------
(* filter_data *)

\* the keys of the ops dict, in insertion order
OpOrder == <<">", "<", "=">>

NoParse == [column |-> <<>>, op |-> "", value |-> <<>>]

\* the for/else loop over ops: first operator of OpOrder found in condition
parse_condition(condition) ==
  LET present == {i \in 1..Len(OpOrder) : Contains(condition, OpOrder[i])}
  IN IF present = {} THEN [err |-> InvalidCondition, cond |-> NoParse]
     ELSE LET i == CHOOSE k \in present : \A m \in present : k <= m
              parts == split(condition, OpOrder[i])
          IN IF Len(parts) # 2 THEN [err |-> UnpackError, cond |-> NoParse]
             ELSE [err |-> NoError,
                   cond |-> [column |-> strip(parts[1]), op |-> OpOrder[i],
                             value |-> strip(parts[2])]]

StrValue(s) == [t |-> "str", s |-> s, v |-> Num(0, 1)]

FloatValue(x) == [t |-> "float", s |-> <<>>, v |-> x]

\* NumOp with ">" taken as operator.ge
NumOp_GeForGt(op, x, y) ==
  IF op = ">" THEN ~NumLess(x, y) ELSE IF op = "<" THEN NumLess(x, y) ELSE NumEq(x, y)

\* operator.gt / lt / eq on two floats
NumOp(op, x, y) ==
  IF op = ">" THEN NumLess(y, x) ELSE IF op = "<" THEN NumLess(x, y) ELSE NumEq(x, y)

\* operator.gt / lt / eq on two strs
StrOp(op, s, t) ==
  IF op = ">" THEN StrLess(t, s) ELSE IF op = "<" THEN StrLess(s, t) ELSE s = t

\* the test of one row inside a list comprehension:
\* coerce = TRUE  is  op_func(float(row[column]), value)   (try branch)
\* coerce = FALSE is  op_func(row[column], value)          (except branch)
RowTest(row, cond, value, coerce) ==
  IF cond.column \notin DOMAIN row THEN [err |-> KeyError, keep |-> FALSE]
  ELSE LET cell == row[cond.column]
       IN IF coerce
          THEN IF ~float(cell).ok THEN [err |-> CoercionError, keep |-> FALSE]
               ELSE [err |-> NoError, keep |-> NumOp(cond.op, float(cell).v, value.v)]
          ELSE IF value.t = "str"
               THEN [err |-> NoError, keep |-> StrOp(cond.op, cell, value.s)]
               ELSE IF cond.op = "="
                    THEN [err |-> NoError, keep |-> FALSE]
                    ELSE [err |-> TypeError, keep |-> FALSE]

\* [row for row in data if ...]: rows are tested in order, the first
\* exception aborts the comprehension
RECURSIVE Comprehension(_, _, _, _)
Comprehension(rows, cond, value, coerce) ==
  IF rows = <<>> THEN [err |-> NoError, rows |-> <<>>]
  ELSE LET t == RowTest(Head(rows), cond, value, coerce)
       IN IF t.err # NoError THEN [err |-> t.err, rows |-> <<>>]
          ELSE LET rest == Comprehension(Tail(rows), cond, value, coerce)
               IN IF rest.err # NoError THEN rest
                  ELSE [err |-> NoError,
                        rows |-> IF t.keep THEN <<Head(rows)>> \o rest.rows
                                 ELSE rest.rows]

\* the try/except of filter_data: value is rebound to a float before the
\* comprehension runs, and "except ValueError" covers both float(value) and
\* the float(row[column]) calls inside the comprehension
filter_body(rows, cond) ==
  LET fv == float(cond.value)
  IN IF ~fv.ok
     THEN [caught |-> {"filter_value"}]
          @@ Comprehension(rows, cond, StrValue(cond.value), FALSE)
     ELSE LET r == Comprehension(rows, cond, FloatValue(fv.v), TRUE)
          IN IF r.err = CoercionError
             THEN [caught |-> {"filter_cell"}]
                  @@ Comprehension(rows, cond, FloatValue(fv.v), FALSE)
             ELSE [caught |-> {}] @@ r

filter_data(rows, condition) ==
  LET p == parse_condition(condition)
  IN IF p.err # NoError
     THEN [err |-> p.err, rows |-> <<>>, caught |-> {}, cond |-> p.cond]
     ELSE [cond |-> p.cond] @@ filter_body(rows, p.cond)

----------------------------------------------------------------------------
(* Aggregator *)

S_avg == <<"a", "v", "g">>

S_min == <<"m", "i", "n">>

S_max == <<"m", "a", "x">>

S_all == <<"a", "l", "l">>

S_func == <<"f", "u", "n", "c">>

S_column == <<"c", "o", "l", "u", "m", "n">>

S_value == <<"v", "a", "l", "u", "e">>

\* the keys of self.functions, in insertion order
FuncOrder == <<S_avg, S_min, S_max>>

NumAdd(x, y) == Num(x.n * y.d + y.n * x.d, x.d * y.d)

RECURSIVE Sum(_)
Sum(xs) == IF xs = <<>> THEN Num(0, 1) ELSE NumAdd(Head(xs), Sum(Tail(xs)))

\* builtin min: the first least element
RECURSIVE Least(_)
Least(xs) ==
  IF Len(xs) = 1 THEN xs[1]
  ELSE LET m == Least(Tail(xs)) IN IF NumLess(m, xs[1]) THEN m ELSE xs[1]

\* builtin max: the first greatest element
RECURSIVE Greatest(_)
Greatest(xs) ==
  IF Len(xs) = 1 THEN xs[1]
  ELSE LET m == Greatest(Tail(xs)) IN IF NumLess(xs[1], m) THEN m ELSE xs[1]

\* self.functions[key](values), for a key of the registry
Reduce(key, xs) ==
  IF key = S_avg
  THEN [err |-> NoError,
        v |-> IF xs # <<>> THEN Num(Sum(xs).n, Sum(xs).d * Len(xs)) ELSE Num(0, 1)]
  ELSE IF xs = <<>> THEN [err |-> EmptySequenceError, v |-> Num(0, 1)]
  ELSE [err |-> NoError, v |-> IF key = S_min THEN Least(xs) ELSE Greatest(xs)]

\* apply without the registry check: an unknown name falls back to avg
apply_NoCheck(name, xs) == Reduce(IF name \in Range(FuncOrder) THEN name ELSE S_avg, xs)

\* Aggregator.apply
apply(name, xs) ==
  IF name \notin Range(FuncOrder)
  THEN [err |-> UnsupportedAggregate, v |-> Num(0, 1)]
  ELSE Reduce(name, xs)

RECURSIVE IntToStr(_)
IntToStr(k) ==
  IF k < 10 THEN <<Digits[k + 1]>>
  ELSE IntToStr(k \div 10) \o <<Digits[(k % 10) + 1]>>

\* f'{x:.2f}' for x >= 0: x rounded to the nearest hundredth (the inputs
\* below have integral values and fewer than 8 of them, so no average lies
\* half-way between two hundredths)
Format2f(x) ==
  LET q == (2 * 100 * x.n + x.d) \div (2 * x.d)
  IN IntToStr(q \div 100) \o <<".">>
     \o <<Digits[((q % 100) \div 10) + 1], Digits[(q % 10) + 1]>>

\* Aggregator.all: one [key, formatted value] per registered reducer
all(xs) ==
  IF \E i \in 1..Len(FuncOrder) : Reduce(FuncOrder[i], xs).err # NoError
  THEN [err |-> EmptySequenceError, rows |-> <<>>]
  ELSE [err |-> NoError,
        rows |-> [i \in 1..Len(FuncOrder) |->
                    <<FuncOrder[i], Format2f(Reduce(FuncOrder[i], xs).v)>>]]

----------------------------------------------------------------------------
(* Output *)

Msg(t) == [kind |-> "msg", text |-> t, headers |-> <<>>, rows |-> <<>>]

\* the arguments handed to tabulate(...)
Table(h, r) == [kind |-> "table", text |-> "", headers |-> h, rows |-> r]

NoDataMsg == Msg("No data matched the filter condition.")

InvalidAggregateMsg == Msg("Invalid aggregate argument. Use column=func format.")

NotNumericMsg == Msg("Aggregation can only be applied to numeric columns.")

\* tabulate(data, headers='keys'): keys is the key order of the rows
DataTable(keys, rows) ==
  Table(keys, [i \in 1..Len(rows) |-> [j \in 1..Len(keys) |-> rows[i][keys[j]]]])

----------------------------------------------------------------------------
(* aggregate_all_columns *)

\* NumericColumns with any() in place of all()
RECURSIVE NumericColumns_Any(_, _)
NumericColumns_Any(keys, rows) ==
  IF keys = <<>> THEN <<>>
  ELSE (IF \E i \in 1..Len(rows) : try_float(rows[i][Head(keys)])
        THEN <<Head(keys)>> ELSE <<>>)
       \o NumericColumns_Any(Tail(keys), rows)

\* the loop over data[0].keys() that appends every all-numeric key
RECURSIVE NumericColumns(_, _)
NumericColumns(keys, rows) ==
  IF keys = <<>> THEN <<>>
  ELSE (IF \A i \in 1..Len(rows) : try_float(rows[i][Head(keys)])
        THEN <<Head(keys)>> ELSE <<>>)
       \o NumericColumns(Tail(keys), rows)

ColumnValues(rows, col) == [i \in 1..Len(rows) |-> float(rows[i][col]).v]

\* ResultTable with each column's rows inserted at the front of the table
RECURSIVE ResultTable_Prepend(_, _)
ResultTable_Prepend(cols, rows) ==
  IF cols = <<>> THEN <<>>
  ELSE LET r == all(ColumnValues(rows, Head(cols))).rows
       IN ResultTable_Prepend(Tail(cols), rows)
          \o [i \in 1..Len(r) |-> <<r[i][1], Head(cols), r[i][2]>>]

\* the loop over numeric_columns extending result_table
RECURSIVE ResultTable(_, _)
ResultTable(cols, rows) ==
  IF cols = <<>> THEN <<>>
  ELSE LET r == all(ColumnValues(rows, Head(cols))).rows
       IN [i \in 1..Len(r) |-> <<r[i][1], Head(cols), r[i][2]>>]
          \o ResultTable(Tail(cols), rows)

\* keys is the key order of the rows' dicts (the CSV header)
aggregate_all_columns(keys, rows) ==
  IF rows = <<>>
  THEN [err |-> IndexError, numeric_columns |-> Nothing, out |-> <<>>]
  ELSE LET cols == NumericColumns(keys, rows)
       IN [err |-> NoError, numeric_columns |-> Some(cols),
           out |-> <<Table(<<S_func, S_column, S_value>>, ResultTable(cols, rows))>>]

----------------------------------------------------------------------------
(* main, lines 97-117: the explicit --aggregate branch *)

\* [float(row[column]) for row in data] inside try/except ValueError
RECURSIVE AggregateValues(_, _)
AggregateValues(rows, col) ==
  IF rows = <<>> THEN [err |-> NoError, values |-> <<>>]
  ELSE IF col \notin DOMAIN Head(rows) THEN [err |-> KeyError, values |-> <<>>]
  ELSE IF ~float(Head(rows)[col]).ok THEN [err |-> CoercionError, values |-> <<>>]
  ELSE LET rest == AggregateValues(Tail(rows), col)
       IN IF rest.err # NoError THEN rest
          ELSE [err |-> NoError,
                values |-> <<float(Head(rows)[col]).v>> \o rest.values]

AggOutcome(p, e, o, c, f, v, k) ==
  [pc |-> p, err |-> e, out |-> o, column |-> c, func |-> f, values |-> v,
   caught |-> k]

main_aggregate(rows, arg) ==
  IF ~Contains(arg, "=")
  THEN AggOutcome("done", NoError, <<InvalidAggregateMsg>>, Nothing, Nothing, Nothing, {})
  ELSE LET parts == split(arg, "=")
       IN IF Len(parts) # 2
          THEN AggOutcome("crashed", UnpackError, <<>>, Nothing, Nothing, Nothing, {})
          ELSE
  LET col == strip(parts[1])
      fn == strip(parts[2])
      vs == AggregateValues(rows, col)
  IN IF vs.err = CoercionError
     THEN AggOutcome("done", NoError, <<NotNumericMsg>>, Some(col), Some(fn),
                     Nothing, {"aggregate"})
     ELSE IF vs.err # NoError
     THEN AggOutcome("crashed", vs.err, <<>>, Some(col), Some(fn), Nothing, {})
     ELSE IF fn = S_all
     THEN LET r == all(vs.values)
          IN IF r.err # NoError
             THEN AggOutcome("crashed", r.err, <<>>, Some(col), Some(fn),
                             Some(vs.values), {})
             ELSE AggOutcome("done", NoError,
                    <<Table(<<S_func, S_column, S_value>>,
                            [i \in 1..Len(r.rows) |-> <<r.rows[i][1], col, r.rows[i][2]>>])>>,
                    Some(col), Some(fn), Some(vs.values), {})
     ELSE LET r == apply(fn, vs.values)
          IN IF r.err # NoError
             THEN AggOutcome("crashed", r.err, <<>>, Some(col), Some(fn),
                             Some(vs.values), {})
             ELSE AggOutcome("done", NoError,
                             <<Table(<<fn>>, << <<Format2f(r.v)>> >>)>>,
                             Some(col), Some(fn), Some(vs.values), {})

----------------------------------------------------------------------------
(* Inputs *)

ColA == <<"a">>

ColB == <<"b">>

\* a column no CSV file below has
ColC == <<"c">>

S_med == <<"m", "e", "d">>

Headers == {<<ColA, ColB>>, <<ColB, ColA>>}

CellsOf(col) ==
  IF col = ColA THEN {<<"2">>, <<"1", "0">>, <<"2", ".", "0">>, <<" ", "2">>, <<"b">>}
  ELSE {<<"1">>, <<>>}

RowsOf(h) ==
  {r \in [Range(h) -> UNION {CellsOf(c) : c \in Range(h)}] :
     \A c \in Range(h) : r[c] \in CellsOf(c)}

\* what read_csv can return: rows sharing the header's keys
Datasets ==
  {[header |-> h, rows |-> rs] :
     h \in Headers, rs \in UNION {[1..n -> RowsOf(<<ColA, ColB>>)] : n \in 0..MaxRows}}

Cond(col, op, val) == col \o <<op>> \o val

WhereArgs ==
  {Nothing, Some(<<>>)}
  \cup {Some(Cond(ColA, op, val)) :
          op \in Range(OpOrder), val \in {<<"2">>, <<"1", "0">>, <<"b">>}}
  \cup {Some(Cond(ColC, "=", <<"2">>)), Some(Cond(ColC, ">", <<"b">>)),
        Some(<<"a">>), Some(<<" ", "a", " ", ">", " ", "2", " ">>),
        Some(<<"a", "=", "2", "=", "2">>)}

AggregateArgs ==
  {Nothing, Some(<<>>)}
  \cup {Some(Cond(ColA, "=", f)) : f \in {S_avg, S_min, S_max, S_all, S_med}}
  \cup {Some(Cond(ColB, "=", S_all)), Some(Cond(ColC, "=", S_avg)),
        Some(<<"a">>), Some(<<"a", "=", "a", "v", "g", "=">>),
        Some(<<" ", "a", " ", "=", " ", "m", "a", "x", " ">>)}

CondChars == {"a", "2", ">", "<", "=", " "}

Conditions == UNION {[1..n -> CondChars] : n \in 0..MaxCondLen}

CallDatasets == {d \in Datasets : d.header = <<ColA, ColB>> /\ Len(d.rows) <= 1}

ApplyNames == {S_avg, S_min, S_max, S_all, S_med}

ApplyValues ==
  UNION {[1..n -> {Num(1, 1), Num(2, 1), Num(10, 1)}] : n \in 0..MaxValues}

----------------------------------------------------------------------------
(* The state machine *)

Init ==
  /\ pc = "idle"
  /\ csv = [header |-> <<>>, rows |-> <<>>]
  /\ data = <<>>
  /\ where = Nothing
  /\ parsed = Nothing
  /\ aggregate = Nothing
  /\ column = Nothing
  /\ func = Nothing
  /\ values = Nothing
  /\ numeric_columns = Nothing
  /\ out = <<>>
  /\ err = NoError
  /\ caught = {}
  /\ ret = Nothing

Truthy(arg) == arg # Nothing /\ arg[1] # <<>>

\* main, lines 80-86: the arguments are parsed and the file is read
MainRead ==
  /\ pc = "idle"
  /\ \E d \in Datasets :
       /\ csv' = d
       /\ data' = d.rows
  /\ pc' = "main_where"
  /\ UNCHANGED <<where, parsed, aggregate, column, func, values,
                 numeric_columns, out, err, caught, ret>>

\* main, lines 88-89
MainWhere ==
  /\ pc = "main_where"
  /\ \E w \in WhereArgs :
       /\ where' = w
       /\ IF Truthy(w)
          THEN LET r == filter_data(data, w[1])
               IN /\ parsed' = IF r.err \in {InvalidCondition, UnpackError}
                               THEN Nothing ELSE Some(r.cond)
                  /\ caught' = caught \cup r.caught
                  /\ err' = r.err
                  /\ data' = IF r.err = NoError THEN r.rows ELSE data
                  /\ pc' = IF r.err = NoError THEN "main_empty" ELSE "crashed"
          ELSE /\ pc' = "main_empty"
               /\ UNCHANGED <<parsed, caught, err, data>>
  /\ UNCHANGED <<csv, aggregate, column, func, values, numeric_columns, out, ret>>

\* MainRender without the empty-data exit
MainRender_NoEmptyExit ==
  /\ pc = "main_empty"
  /\ out' = Append(out, DataTable(csv.header, data))
  /\ pc' = "main_aggregate"
  /\ UNCHANGED <<csv, data, where, parsed, aggregate, column, func, values,
                 numeric_columns, err, caught, ret>>

\* main, lines 91-95
MainRender ==
  /\ pc = "main_empty"
  /\ IF data = <<>>
     THEN /\ out' = Append(out, NoDataMsg)
          /\ pc' = "done"
     ELSE /\ out' = Append(out, DataTable(csv.header, data))
          /\ pc' = "main_aggregate"
  /\ UNCHANGED <<csv, data, where, parsed, aggregate, column, func, values,
                 numeric_columns, err, caught, ret>>

\* main, lines 97-119
MainAggregate ==
  /\ pc = "main_aggregate"
  /\ \E a \in AggregateArgs :
       /\ aggregate' = a
       /\ IF Truthy(a)
          THEN LET r == main_aggregate(data, a[1])
               IN /\ pc' = r.pc
                  /\ err' = r.err
                  /\ out' = out \o r.out
                  /\ column' = r.column
                  /\ func' = r.func
                  /\ values' = r.values
                  /\ caught' = caught \cup r.caught
                  /\ UNCHANGED numeric_columns
          ELSE LET r == aggregate_all_columns(csv.header, data)
               IN /\ pc' = IF r.err = NoError THEN "done" ELSE "crashed"
                  /\ err' = r.err
                  /\ out' = out \o r.out
                  /\ numeric_columns' = r.numeric_columns
                  /\ UNCHANGED <<column, func, values, caught>>
  /\ UNCHANGED <<csv, data, where, parsed, ret>>

\* filter_data called on its own
CallFilterData ==
  /\ pc = "idle"
  /\ \E d \in CallDatasets, c \in Conditions :
       LET r == filter_data(d.rows, c)
       IN /\ csv' = d
          /\ data' = d.rows
          /\ where' = Some(c)
          /\ parsed' = IF r.err \in {InvalidCondition, UnpackError}
                       THEN Nothing ELSE Some(r.cond)
          /\ caught' = r.caught
          /\ err' = r.err
          /\ ret' = IF r.err = NoError THEN Some(r.rows) ELSE Nothing
          /\ pc' = IF r.err = NoError THEN "filter_returned" ELSE "filter_raised"
  /\ UNCHANGED <<aggregate, column, func, values, numeric_columns, out>>

\* aggregate_all_columns called on its own
CallAggregateAllColumns ==
  /\ pc = "idle"
  /\ \E d \in Datasets :
       LET r == aggregate_all_columns(d.header, d.rows)
       IN /\ csv' = d
          /\ data' = d.rows
          /\ numeric_columns' = r.numeric_columns
          /\ out' = r.out
          /\ err' = r.err
          /\ pc' = IF r.err = NoError THEN "columns_returned" ELSE "columns_raised"
  /\ UNCHANGED <<where, parsed, aggregate, column, func, values, caught, ret>>

\* Aggregator().apply called on its own
CallApply ==
  /\ pc = "idle"
  /\ \E name \in ApplyNames, xs \in ApplyValues :
       LET r == apply(name, xs)
       IN /\ func' = Some(name)
          /\ values' = Some(xs)
          /\ err' = r.err
          /\ ret' = IF r.err = NoError THEN Some(r.v) ELSE Nothing
          /\ pc' = IF r.err = NoError THEN "apply_returned" ELSE "apply_raised"
  /\ UNCHANGED <<csv, data, where, parsed, aggregate, column, numeric_columns,
                 out, caught>>

Next ==
  \/ MainRead
  \/ MainWhere
  \/ MainRender
  \/ MainAggregate
  \/ CallFilterData
  \/ CallAggregateAllColumns
  \/ CallApply

Spec == Init /\ [][Next]_vars

----------------------------------------------------------------------------
(* Reading the state *)

InMain == pc \in {"main_where", "main_empty", "main_aggregate", "done", "crashed"}

\* main stopped on an exception raised by filter_data (nothing printed yet)
MainFilterRaised == pc = "crashed" /\ out = <<>>

\* filter_data has been called and has returned or raised
FilterCalled ==
  \/ pc \in {"filter_returned", "filter_raised"}
  \/ pc \in {"main_empty", "main_aggregate", "done", "crashed"} /\ Truthy(where)

FilterReturned ==
  \/ pc = "filter_returned"
  \/ pc \in {"main_empty", "main_aggregate", "done", "crashed"}
     /\ Truthy(where) /\ ~MainFilterRaised

FilterRaised == FilterCalled /\ ~FilterReturned

FilterOutput == IF pc = "filter_returned" THEN ret[1] ELSE data

ColumnPresent(col) == \A i \in 1..Len(csv.rows) : col \in DOMAIN csv.rows[i]

\* main has run its aggregation step (lines 97-119) to its end
AggregationStepDone ==
  pc \in {"done", "crashed"} /\ out # <<>> /\ out[1].kind = "table"

Registry == {S_avg, S_min, S_max}

----------------------------------------------------------------------------
(* Claims *)

\* C1: whenever filter_data is called with a comparison value that parses as
\* a number and some row's cell in the condition's column does not parse,
\* the call raises the numeric-coercion error (for ">", "<" and "="), returns
\* no row list, and main stops before anything is printed.
C1_FilterCoercionFatal ==
  (/\ FilterCalled
   /\ parsed # Nothing
   /\ float(parsed[1].value).ok
   /\ ColumnPresent(parsed[1].column)
   /\ \E i \in 1..Len(csv.rows) : ~float(csv.rows[i][parsed[1].column]).ok)
  => /\ FilterRaised
     /\ err = CoercionError
     /\ out = <<>>

\* C2: a missing column is fatal for --where (the lookup failure leaves
\* filter_data) but for --aggregate it is caught in main: the run ends
\* cleanly with a message and without aggregate output.
C2_MissingColumnAsymmetry ==
  /\ (/\ FilterCalled
      /\ parsed # Nothing
      /\ csv.rows # <<>>
      /\ ~ColumnPresent(parsed[1].column))
     => (FilterRaised /\ err = KeyError)
  /\ (/\ AggregationStepDone
      /\ column # Nothing
      /\ \E i \in 1..Len(data) : column[1] \notin DOMAIN data[i])
     => /\ pc = "done"
        /\ err = NoError
        /\ Len(out) = 2
        /\ out[2].kind = "msg"

\* the where half of C2 on its own
C2_WhereMissingColumnFatal ==
  (/\ FilterCalled
   /\ parsed # Nothing
   /\ csv.rows # <<>>
   /\ ~ColumnPresent(parsed[1].column))
  => (FilterRaised /\ err = KeyError)

FirstToken(c) ==
  IF Contains(c, ">") THEN ">" ELSE IF Contains(c, "<") THEN "<" ELSE "="

\* C3: parsing succeeds for every condition containing ">", "<" or "=" and
\* fails with InvalidCondition exactly when none occurs; the operator is the
\* first of ">", "<", "=" present, the column is the trimmed text before its
\* FIRST occurrence and the value the trimmed text after it.
C3_ParseFirstOccurrence ==
  FilterCalled =>
    LET c == where[1]
    IN IF \A t \in {">", "<", "="} : ~Contains(c, t)
       THEN FilterRaised /\ err = InvalidCondition /\ parsed = Nothing
       ELSE LET t == FirstToken(c)
                i == FirstIndex(c, t)
            IN /\ err # InvalidCondition
               /\ parsed = Some([column |-> strip(SubSeq(c, 1, i - 1)),
                                 op |-> t,
                                 value |-> strip(SubSeq(c, i + 1, Len(c)))])

NumericHolds(op, cell, val) ==
  LET x == float(cell).v
      y == float(val).v
  IN CASE op = ">" -> x.n * y.d > y.n * x.d
       [] op = "<" -> x.n * y.d < y.n * x.d
       [] OTHER -> x.n * y.d = y.n * x.d

StringHolds(op, cell, val) ==
  CASE op = ">" -> StrLess(val, cell)
    [] op = "<" -> StrLess(cell, val)
    [] OTHER -> cell = val

\* C4: for a parsed condition on a column present in all rows, filter_data
\* returns exactly the rows, in input order, that satisfy the predicate:
\* numeric comparison when the value and all cells of the column parse as
\* numbers, string comparison when the value does not parse; the input rows
\* are left as they were.
C4_FilterSubsequence ==
  (FilterCalled /\ parsed # Nothing /\ ColumnPresent(parsed[1].column)) =>
    LET p == parsed[1]
        cell(r) == r[p.column]
    IN /\ (/\ float(p.value).ok
           /\ \A i \in 1..Len(csv.rows) : float(cell(csv.rows[i])).ok)
          => /\ FilterReturned
             /\ FilterOutput
                = SelectSeq(csv.rows, LAMBDA r : NumericHolds(p.op, cell(r), p.value))
       /\ ~float(p.value).ok
          => /\ FilterReturned
             /\ FilterOutput
                = SelectSeq(csv.rows, LAMBDA r : StringHolds(p.op, cell(r), p.value))
       /\ pc = "filter_returned" => data = csv.rows

\* a numeric filter that keeps "10" and drops another row under "> 2"
C4_Witness ==
  /\ FilterReturned
  /\ parsed # Nothing
  /\ parsed[1].op = ">"
  /\ parsed[1].value = <<"2">>
  /\ parsed[1].column = ColA
  /\ Len(csv.rows) = 2
  /\ FilterOutput # <<>>
  /\ Len(FilterOutput) < Len(csv.rows)
  /\ \E i \in 1..Len(FilterOutput) : FilterOutput[i][ColA] = <<"1", "0">>

\* C5: when filtering produces zero rows, main prints the "no data matched"
\* message and ends normally: no table is rendered, --aggregate is not
\* parsed, no aggregation is attempted and no error is raised.
C5_EmptyFilterExit ==
  (InMain /\ FilterReturned /\ data = <<>>) =>
    /\ pc \in {"main_empty", "done"}
    /\ pc = "main_empty" => out = <<>>
    /\ pc = "done" => out = <<NoDataMsg>>
    /\ err = NoError
    /\ aggregate = Nothing
    /\ column = Nothing
    /\ func = Nothing
    /\ values = Nothing
    /\ numeric_columns = Nothing

C5_Witness ==
  /\ pc = "done"
  /\ Truthy(where)
  /\ csv.rows # <<>>
  /\ data = <<>>
  /\ out = <<NoDataMsg>>

\* the aggregate half of C6 on its own
C6_AggregateCoercionCaught ==
  (/\ AggregationStepDone
   /\ column # Nothing
   /\ \A i \in 1..Len(data) : column[1] \in DOMAIN data[i]
   /\ \E i \in 1..Len(data) : ~float(data[i][column[1]]).ok)
  => /\ pc = "done"
     /\ err = NoError
     /\ out = <<DataTable(csv.header, data), NotNumericMsg>>
     /\ "aggregate" \in caught

\* C6: when --aggregate names an existing column with a cell that does not
\* parse as a number, main catches the coercion failure, prints a message,
\* produces no aggregate table and ends without a crash, whatever func is;
\* and no other place of the pipeline catches the coercion failure of a cell.
C6_AggregateCoercionCaughtOnly ==
  /\ (/\ AggregationStepDone
      /\ column # Nothing
      /\ \A i \in 1..Len(data) : column[1] \in DOMAIN data[i]
      /\ \E i \in 1..Len(data) : ~float(data[i][column[1]]).ok)
     => /\ pc = "done"
        /\ err = NoError
        /\ out = <<DataTable(csv.header, data), NotNumericMsg>>
        /\ "aggregate" \in caught
  /\ "filter_cell" \notin caught

RegistryOrder == <<S_avg, S_min, S_max>>

CellValues(rows, col) == [i \in 1..Len(rows) |-> float(rows[i][col]).v]

\* what the reducer called name yields on the non-empty xs
ExpectedValue(name, xs) ==
  CASE name = S_avg -> Num(Sum(xs).n, Sum(xs).d * Len(xs))
    [] name = S_min -> CHOOSE x \in Range(xs) : \A y \in Range(xs) : ~NumLess(y, x)
    [] OTHER -> CHOOSE x \in Range(xs) : \A y \in Range(xs) : ~NumLess(x, y)

AllNumeric(rows, col) ==
  \A i \in 1..Len(rows) : col \in DOMAIN rows[i] /\ float(rows[i][col]).ok

\* one {func, column, value} row per (numeric column, reducer): columns in
\* key order, reducers in registry order within a column
ExpectedAutoRows ==
  LET nc == SelectSeq(csv.header, LAMBDA c : AllNumeric(data, c))
      m == Len(RegistryOrder)
  IN [k \in 1..(m * Len(nc)) |->
        LET c == nc[((k - 1) \div m) + 1]
            f == RegistryOrder[((k - 1) % m) + 1]
        IN <<f, c, Format2f(ExpectedValue(f, CellValues(data, c)))>>]

\* C7: a run that reaches aggregation with a non-empty dataset executes
\* exactly one mode: without --aggregate, one {func, column, value} row per
\* (numeric column, reducer), by column in key order and by reducer in the
\* order avg, min, max; with func "all", one row per reducer for the named
\* column only; with a registered func, one value in a single-row table with
\* the one header func.
C7_AggregationModes ==
  AggregationStepDone =>
    /\ aggregate = Nothing
       => /\ pc = "done"
          /\ out = <<DataTable(csv.header, data),
                     Table(<<S_func, S_column, S_value>>, ExpectedAutoRows)>>
    /\ (/\ Truthy(aggregate)
        /\ column # Nothing
        /\ AllNumeric(data, column[1])
        /\ func = Some(S_all))
       => /\ pc = "done"
          /\ out = <<DataTable(csv.header, data),
                     Table(<<S_func, S_column, S_value>>,
                           [j \in 1..Len(RegistryOrder) |->
                              <<RegistryOrder[j], column[1],
                                Format2f(ExpectedValue(RegistryOrder[j],
                                                       CellValues(data, column[1])))>>])>>
    /\ (/\ Truthy(aggregate)
        /\ column # Nothing
        /\ AllNumeric(data, column[1])
        /\ func # Nothing
        /\ func[1] \in Registry)
       => /\ pc = "done"
          /\ out = <<DataTable(csv.header, data),
                     Table(<<func[1]>>,
                           << <<Format2f(ExpectedValue(func[1],
                                                       CellValues(data, column[1])))>> >>)>>

\* automatic aggregation over two numeric columns whose key order is b, a
C7_Witness ==
  /\ pc = "done"
  /\ AggregationStepDone
  /\ aggregate = Nothing
  /\ csv.header = <<ColB, ColA>>
  /\ Len(data) = 2
  /\ Len(out) = 2
  /\ Len(out[2].rows) = 6
  /\ out[2].rows[1][2] = ColB
  /\ out[2].rows[4] = <<S_avg, ColA, <<"6", ".", "0", "0">> >>

PositionIn(s, x) == CHOOSE i \in 1..Len(s) : s[i] = x

\* C8: for a non-empty dataset the numeric columns computed by
\* aggregate_all_columns are exactly the columns whose every cell parses as
\* a number (one bad cell, "abc" or "", excludes the column), in the key
\* order of the first row.
C8_NumericColumnsExact ==
  (numeric_columns # Nothing /\ data # <<>>) =>
    LET nc == numeric_columns[1]
    IN /\ \A c \in Range(csv.header) :
            c \in Range(nc) <=> \A i \in 1..Len(data) : float(data[i][c]).ok
       /\ Range(nc) \subseteq Range(csv.header)
       /\ \A i, j \in 1..Len(nc) :
            i < j => PositionIn(csv.header, nc[i]) < PositionIn(csv.header, nc[j])

\* column a is dropped for one bad cell in the second row, column b is kept
C8_Witness ==
  /\ numeric_columns = Some(<<ColB>>)
  /\ Len(data) = 2
  /\ float(data[1][ColA]).ok
  /\ ~float(data[2][ColA]).ok

\* C9: called on an empty dataset, aggregate_all_columns returns an empty
\* set of numeric columns and does not fail.
C9_EmptyDatasetNoColumns ==
  (pc \in {"columns_returned", "columns_raised"} /\ data = <<>>) =>
    /\ pc = "columns_returned"
    /\ err = NoError
    /\ numeric_columns = Some(<<>>)

\* C10: apply(name, values) raises UnsupportedAggregate exactly when name is
\* not a key of the registry and otherwise gives the reducer's result (avg of
\* no values is 0); in main an unknown func on a numeric column raises that
\* error, which is not turned into a message, and no aggregate table is
\* printed.
C10_UnsupportedAggregate ==
  /\ pc \in {"apply_returned", "apply_raised"} =>
       /\ err = UnsupportedAggregate <=> func[1] \notin Registry
       /\ (func[1] \in Registry /\ values[1] # <<>>)
          => /\ pc = "apply_returned"
             /\ NumEq(ret[1], ExpectedValue(func[1], values[1]))
       /\ (func[1] = S_avg /\ values[1] = <<>>)
          => /\ pc = "apply_returned"
             /\ ret = Some(Num(0, 1))
  /\ (/\ AggregationStepDone
      /\ column # Nothing
      /\ AllNumeric(data, column[1])
      /\ func # Nothing
      /\ func[1] \notin Registry \cup {S_all})
     => /\ pc = "crashed"
        /\ err = UnsupportedAggregate
        /\ out = <<DataTable(csv.header, data)>>

\* main stopped by the error of an unknown reducer on a numeric column
C10_Witness ==
  /\ pc = "crashed"
  /\ err = UnsupportedAggregate
  /\ func = Some(S_med)
  /\ column = Some(ColA)
  /\ values # Nothing
  /\ Len(out) = 1

====
